---- MODULE Spec2Model ----
(***************************************************************************)
(* nano-cache: an in-memory key/value cache with TTL expiry, stale         *)
(* windows, LRU eviction, a background cleanup timer and getOrSet with     *)
(* in-flight deduplication.  The repository ships two implementations of   *)
(* the same class, src/nano-cache.js and src/nano-cache.ts; the variable   *)
(* impl says which one a behaviour runs, and the operators branch on it    *)
(* where the two files differ.                                             *)
(*                                                                         *)
(* Every public method runs to completion on the single JavaScript thread, *)
(* so a method is one action.  The only suspension point is the loader     *)
(* promise of getOrSet: the call is one action, the settlement handler     *)
(* (then / catch) another.                                                 *)
(***************************************************************************)
EXTENDS Integers, Sequences, FiniteSets, TLC

\* ---------------------------------------------------------------- bounds
MaxTime == 4
MaxAccess == 1
MaxLoads == 2
MaxWaiters == 2
MaxObservers == 2
MaxVersion == 1

\* Date.now() is Epoch + the model clock: a timestamp is far larger than any
\* window, so that "now - 0" (the never-expires sentinel) is outside every window.
Epoch == 1000

\* the keys of the general specification, and those of the eviction specification
Keys == {"a"}
LRUKeys == {"a", "b", "c"}
AllKeys == Keys \cup LRUKeys
Values == {"v1", "v2"}
\* ttl arguments (0 = never expires) and the stale windows (0 = off)
TTLs == {0, 1}
StaleWindows == {0, 2}

\* the two event kinds of this._events
EventTypes == {"expire", "evict"}
\* observer callbacks: obs returns, bad raises an error
Callbacks == {"obs", "bad"}
\* object values (references); the strings of Values are primitives
Refs == {"o1", "o2", "o3"}

Undefined == "undefined"
None == "none"
LoaderError == "LoaderError"
DataCloneError == "DataCloneError"

VARIABLES
    impl,       \* "js" or "ts": which source file runs
    opts,       \* this.opts, immutable after construction
    now,        \* Date.now() - Epoch
    _map,       \* this._map in insertion order: <<[k, v, e, t, a], ...>>
    _timers,    \* this._timers / this._timer: TRUE while the interval is set
    _pending,   \* this._pending: key -> id of the registered promise, 0 = no marker
    _events,    \* this._events: event kind -> the observers in registration order
    heap,       \* the objects that exist: reference -> version of its content
    ops,        \* the promises of getOrSet that are unsettled or still registered:
                \* a set of [id, key, ttl, st, res, waiters]
    written,    \* history: per key, the last write with ttl > 0 that no caller has undone
    last,       \* history: the operation that produced this state and what it returned
    calls       \* history: the callbacks (observers, disposeValue) that operation
                \* invoked, in order

vars == <<impl, opts, now, _map, _timers, _pending, _events, heap, ops, written, last, calls>>

\* ------------------------------------------------------------ the store
DateNow == Epoch + now

Entry(k, v, e, t) == [k |-> k, v |-> v, e |-> e, t |-> t, a |-> 0]

\* Map.prototype.has / get: the position of key k in _map, 0 when absent
IndexOf(m, k) ==
    IF \E i \in 1..Len(m) : m[i].k = k
    THEN CHOOSE i \in 1..Len(m) : m[i].k = k
    ELSE 0

Has(m, k) == IndexOf(m, k) # 0

KeysOf(m) == {m[i].k : i \in 1..Len(m)}

\* Map.prototype.delete
RemoveAt(m, i) == SubSeq(m, 1, i - 1) \o SubSeq(m, i + 1, Len(m))

\* Expired with the comparison made inclusive: dead at expiresAt already
Expired_Inclusive(en) == en.e # 0 /\ en.e <= DateNow

\* const expired = entry.e !== 0 && entry.e < now
Expired(en) == en.e # 0 /\ en.e < DateNow

\* get(): does the lookup serve the entry (alive, or stale under allowStale / SWR)?
Servable(en) ==
    IF Expired(en)
    THEN \/ opts.allowStale
         \/ /\ opts.staleWhileRevalidate > 0
            /\ DateNow - en.e < opts.staleWhileRevalidate
    ELSE TRUE

\* get(key, {touch}): the value returned
GetValue(m, k) ==
    IF ~Has(m, k) THEN Undefined
    ELSE IF Servable(m[IndexOf(m, k)]) THEN m[IndexOf(m, k)].v
    ELSE Undefined

\* _touch(entry)
Touch(en) == [en EXCEPT !.t = DateNow, !.a = @ + 1]

\* get(key, {touch}): the store afterwards
GetMap(m, k, touch) ==
    IF touch /\ Has(m, k) /\ Servable(m[IndexOf(m, k)])
    THEN [m EXCEPT ![IndexOf(m, k)] = Touch(@)]
    ELSE m

\* Score with the weight on the access count instead of the touch time
Score_Frequency(en) == en.t - en.a * 1000000

\* The score is computed in IEEE doubles.  Date.now() is about 1.8e12, so
\* e.t * 1_000_000 is about 1.8e18, between 2^60 and 2^61, where consecutive
\* doubles are 2^8 apart: the product and the difference are each rounded to
\* the nearest multiple of Ulp, ties to the even multiple.  (The model clock
\* counts from a timestamp whose product is an even multiple of Ulp.)
Ulp == 256

RoundToUlp(x) ==
    LET q == x \div Ulp
        r == x % Ulp
    IN  IF 2 * r < Ulp THEN q * Ulp
        ELSE IF 2 * r > Ulp THEN (q + 1) * Ulp
        ELSE IF q % 2 = 0 THEN q * Ulp
        ELSE (q + 1) * Ulp

\* _evictLRU: const score = e.t * 1_000_000 - e.a
Score(en) == RoundToUlp(RoundToUlp(en.t * 1000000) - en.a)

\* a scan that ends on the entry inserted last
VictimIndex_Last(m) == Len(m)

\* _evictLRU: the scan keeps the first entry, in iteration order, of minimal score
VictimIndex(m) ==
    CHOOSE i \in 1..Len(m) :
        /\ \A j \in 1..Len(m) : Score(m[i]) <= Score(m[j])
        /\ \A j \in 1..(i - 1) : Score(m[j]) > Score(m[i])

EvictLRU(m) == IF Len(m) = 0 THEN m ELSE RemoveAt(m, VictimIndex(m))

\* _clone(value) under useClone: structuredClone throws on a value it cannot
\* copy (a function, a symbol); c says whether the value is cloneable
CloneThrows(c) == opts.useClone /\ ~c

\* set(): exp = ttl > 0 ? now + ttl : 0
ExpiryOf(ttl) == IF ttl > 0 THEN DateNow + ttl ELSE 0

\* Overflows with the capacity test off by one
Overflows_OffByOne(m, k) ==
    /\ ~Has(m, k)
    /\ opts.maxSize > 0
    /\ Len(m) + 1 > opts.maxSize + 1

\* set(): does the insertion run _evictLRU?
Overflows(m, k) ==
    /\ ~Has(m, k)
    /\ opts.maxSize > 0
    /\ Len(m) + 1 > opts.maxSize

\* set that runs the eviction for a key already in a full store
SetMap_EvictsAtCapacity(m, k, v, ttl) ==
    IF Has(m, k)
    THEN IF opts.maxSize > 0 /\ Len(m) >= opts.maxSize
         THEN EvictLRU([m EXCEPT ![IndexOf(m, k)] = Entry(k, v, ExpiryOf(ttl), DateNow)])
         ELSE [m EXCEPT ![IndexOf(m, k)] = Entry(k, v, ExpiryOf(ttl), DateNow)]
    ELSE IF Overflows(m, k)
         THEN EvictLRU(Append(m, Entry(k, v, ExpiryOf(ttl), DateNow)))
         ELSE Append(m, Entry(k, v, ExpiryOf(ttl), DateNow))

\* set that keeps the touch time of the entry it replaces
SetMap_KeepsTouch(m, k, v, ttl) ==
    IF Has(m, k)
    THEN [m EXCEPT ![IndexOf(m, k)] = Entry(k, v, ExpiryOf(ttl), m[IndexOf(m, k)].t)]
    ELSE IF Overflows(m, k)
         THEN EvictLRU(Append(m, Entry(k, v, ExpiryOf(ttl), DateNow)))
         ELSE Append(m, Entry(k, v, ExpiryOf(ttl), DateNow))

\* set(key, value, ttl): the store afterwards (the clone did not throw)
SetMap(m, k, v, ttl) ==
    IF Has(m, k)
    THEN [m EXCEPT ![IndexOf(m, k)] = Entry(k, v, ExpiryOf(ttl), DateNow)]
    ELSE IF Overflows(m, k)
         THEN EvictLRU(Append(m, Entry(k, v, ExpiryOf(ttl), DateNow)))
         ELSE Append(m, Entry(k, v, ExpiryOf(ttl), DateNow))

\* the key _evictLRU removed in set(key, ...), None when it did not run
EvictedBy(m, k, v, ttl) ==
    IF Overflows(m, k)
    THEN Append(m, Entry(k, v, ExpiryOf(ttl), DateNow))[
             VictimIndex(Append(m, Entry(k, v, ExpiryOf(ttl), DateNow)))].k
    ELSE None

\* a sweep that spares what get would still serve
RECURSIVE Sweep_HonoursStale(_)
Sweep_HonoursStale(m) ==
    IF Len(m) = 0 THEN m
    ELSE IF ~Servable(Head(m)) THEN Sweep_HonoursStale(Tail(m))
    ELSE <<Head(m)>> \o Sweep_HonoursStale(Tail(m))

\* _cleanup(): the entries the sweep leaves
RECURSIVE Sweep(_)
Sweep(m) ==
    IF Len(m) = 0 THEN m
    ELSE IF Expired(Head(m)) THEN Sweep(Tail(m))
    ELSE <<Head(m)>> \o Sweep(Tail(m))

\* has(key).  The two files differ on an expired entry:
\*   js: return !this.opts.allowStale      ts: return this.opts.allowStale
has(m, k) ==
    IF ~Has(m, k) THEN FALSE
    ELSE IF m[IndexOf(m, k)].e = 0 \/ m[IndexOf(m, k)].e >= DateNow THEN TRUE
    ELSE IF impl = "js" THEN ~opts.allowStale
    ELSE opts.allowStale

\* the three kinds of answer of ttl(key): null, Infinity, a number of ms
Null == [is |-> "null", ms |-> 0]
Infinity == [is |-> "Infinity", ms |-> 0]
Remaining(n) == [is |-> "number", ms |-> n]

\* ttl that clamps nothing: the remaining time of an expired entry is negative
TtlQuery_Unclamped(m, k) ==
    IF ~Has(m, k) THEN Null
    ELSE IF m[IndexOf(m, k)].e = 0 THEN Infinity
    ELSE Remaining(m[IndexOf(m, k)].e - DateNow)

\* ttl(key) without newTTL: null, Infinity, or remaining > 0 ? remaining : 0
TtlQuery(m, k) ==
    IF ~Has(m, k) THEN Null
    ELSE IF m[IndexOf(m, k)].e = 0 THEN Infinity
    ELSE IF m[IndexOf(m, k)].e - DateNow > 0
         THEN Remaining(m[IndexOf(m, k)].e - DateNow)
         ELSE Remaining(0)

\* ------------------------------------------------------------- cloning
\* the reference of the object structuredClone allocates next
NewRef == CHOOSE r \in Refs : r \notin DOMAIN heap

\* _clone(val): a new object of equal content; a primitive is its own copy
Clone(v) == IF v \in Refs THEN NewRef ELSE v

\* set(): const cloned = this.opts.useClone ? this._clone(value) : value
Stored(v) == IF opts.useClone THEN Clone(v) ELSE v

\* the objects after set() has stored value v
HeapAfterSet(v) ==
    IF opts.useClone /\ v \in Refs THEN heap @@ (NewRef :> heap[v]) ELSE heap

\* the model has an unused reference left for the copy
CanStore(v) == (opts.useClone /\ v \in Refs) => Refs \ DOMAIN heap # {}

\* what a caller sees in a value: the content of an object, or the primitive
ContentOf(v) == IF v \in Refs THEN heap[v] ELSE v

\* ------------------------------------------- observers and disposeValue
\* one invocation of a callback: an observer cb({key, value, reason}) of event
\* kind ev, or opts.disposeValue(value, key, reason) (ev = None)
Call(fn, ev, k, v, reason) ==
    [fn |-> fn, event |-> ev, key |-> k, value |-> v, reason |-> reason]

Raises(fn) == fn = "bad"

\* this._events.get(event) || []
Listeners(ev) == IF ev \in DOMAIN _events THEN _events[ev] ELSE <<>>

\* _emit without the try/catch: the first observer that raises ends the loop
Emit_Unguarded(ev, k, v, reason) ==
    IF \E i \in 1..Len(Listeners(ev)) : Raises(Listeners(ev)[i])
    THEN [i \in 1..(CHOOSE n \in 1..Len(Listeners(ev)) :
                        /\ Raises(Listeners(ev)[n])
                        /\ \A j \in 1..(n - 1) : ~Raises(Listeners(ev)[j]))
             |-> Call(Listeners(ev)[i], ev, k, v, reason)]
    ELSE [i \in 1..Len(Listeners(ev)) |-> Call(Listeners(ev)[i], ev, k, v, reason)]

\* _emit(event, key, value, reason): for (const cb of cbs) try { cb(...) } catch {}
Emit(ev, k, v, reason) ==
    [i \in 1..Len(Listeners(ev)) |-> Call(Listeners(ev)[i], ev, k, v, reason)]

\* _disposeEntry that always reports the reason delete
DisposeEntry_AlwaysDelete(en, reason) ==
    IF opts.disposeValue
    THEN <<Call("disposeValue", None, en.k, en.v, "delete")>>
    ELSE <<>>

\* _disposeEntry(key, entry, reason)
DisposeEntry(en, reason) ==
    IF opts.disposeValue
    THEN <<Call("disposeValue", None, en.k, en.v, reason)>>
    ELSE <<>>

\* _evictLRU that forgets to notify the observers
EvictCalls_NoEmit(m) ==
    IF Len(m) = 0 THEN <<>>
    ELSE DisposeEntry(m[VictimIndex(m)], "lru")

\* _evictLRU(): _disposeEntry(oldestKey, entry, 'lru'), delete, _emit('evict', ...)
EvictCalls(m) ==
    IF Len(m) = 0 THEN <<>>
    ELSE DisposeEntry(m[VictimIndex(m)], "lru")
             \o Emit("evict", m[VictimIndex(m)].k, m[VictimIndex(m)].v, "lru")

\* the callbacks set(key, value, ttl) invokes
SetCalls(m, k, v, ttl) ==
    IF Overflows(m, k)
    THEN EvictCalls(Append(m, Entry(k, v, ExpiryOf(ttl), DateNow)))
    ELSE <<>>

\* _cleanup(): per expired entry _disposeEntry(key, entry, 'expire'), delete,
\* _emit('expire', key, entry.v, 'ttl')
RECURSIVE SweepCalls(_)
SweepCalls(m) ==
    IF Len(m) = 0 THEN <<>>
    ELSE IF Expired(Head(m))
         THEN DisposeEntry(Head(m), "expire")
                  \o Emit("expire", Head(m).k, Head(m).v, "ttl")
                  \o SweepCalls(Tail(m))
         ELSE SweepCalls(Tail(m))

\* clear(): for (const [k, e] of this._map) this._disposeEntry(k, e, 'clear')
RECURSIVE ClearCalls(_)
ClearCalls(m) ==
    IF Len(m) = 0 THEN <<>>
    ELSE DisposeEntry(Head(m), "clear") \o ClearCalls(Tail(m))

\* -------------------------------------------------------- history variables
NoWrite == [on |-> FALSE, v |-> Undefined, exp |-> 0, ttl |-> 0]

\* record a completed set(k, v, ttl) that evicted key x (or None)
NoteWrite(w, k, v, ttl, x) ==
    [q \in AllKeys |->
        IF q = k THEN (IF ttl > 0
                       THEN [on |-> TRUE, v |-> v, exp |-> DateNow + ttl, ttl |-> ttl]
                       ELSE NoWrite)
        ELSE IF q = x THEN NoWrite
        ELSE w[q]]

\* a synchronous method: its name, its key, what it returned, the key it evicted
Did(op, k, ret, x) ==
    [op |-> op, key |-> k, ret |-> ret, evicted |-> x, id |-> 0, waiters |-> 0,
     loader |-> None]

\* getOrSet returned promise id
DidCall(k, ret, id) ==
    [op |-> "getOrSet", key |-> k, ret |-> ret, evicted |-> None, id |-> id, waiters |-> 0,
     loader |-> None]

\* promise o settled: op is loaded / rescued / rejected / storefailed, ret the
\* value or error its waiters receive, out what the loader settled with
DidSettle(op, o, ret, x, out) ==
    [op |-> op, key |-> o.key, ret |-> ret, evicted |-> x, id |-> o.id,
     waiters |-> o.waiters, loader |-> out]

\* ------------------------------------------------------------- getOrSet
\* the rejection handler's stale-if-error lookup: the value the promise is
\* fulfilled with, Undefined when the error is rethrown.
\*   js: old = this.peek(key); old !== undefined && now - (entry.e || 0) < staleIfError
\*   ts: oldEntry = this._map.get(key); oldValue !== undefined && now - oldEntry.e < staleIfError
StaleIfError(m, k) ==
    IF opts.staleIfError > 0 /\ Has(m, k)
    THEN IF impl = "js"
         THEN IF /\ GetValue(m, k) # Undefined
                 /\ DateNow - m[IndexOf(m, k)].e < opts.staleIfError
              THEN GetValue(m, k)
              ELSE Undefined
         ELSE IF DateNow - m[IndexOf(m, k)].e < opts.staleIfError
              THEN m[IndexOf(m, k)].v
              ELSE Undefined
    ELSE Undefined

NewOp(id, k, ttl) ==
    [id |-> id, key |-> k, ttl |-> ttl, st |-> "pending", res |-> None, waiters |-> 1]

Settled(o, st, res) == [o EXCEPT !.st = st, !.res = res]

\* the identity of the promise the next loader() call returns
FreshId == CHOOSE i \in 1..(Cardinality(ops) + 1) : \A o \in ops : o.id # i

\* the promise with identity id
Op(id) == CHOOSE o \in ops : o.id = id

\* let pending = this._pending?.get(key), 0 for undefined: a lookup that
\* never finds the marker
Registered_Never(p, k) == 0

\* let pending = this._pending?.get(key), 0 for undefined
Registered(p, k) == p[k]

\* Unmark that forgets to delete
Unmark_Nothing(p, k) == p

\* this._pending.delete(key)
Unmark(p, k) == [p EXCEPT ![k] = 0]

\* the promises the model keeps after promise o has settled: a settled promise
\* stays only while the registry p still hands it out
Retire(o, p, st, res) ==
    IF \E k \in AllKeys : p[k] = o.id
    THEN (ops \ {o}) \cup {Settled(o, st, res)}
    ELSE ops \ {o}

\* --------------------------------------------------------------- Init
\* The options of the general specification.  Left out, because they add no
\* behaviour: checkPeriod 0 (the timer never fires: the behaviours in which
\* CleanupTick is never taken) and allowStale with a staleWhileRevalidate
\* window (get returns on allowStale before it looks at the window).
\* disposeValue: is the option a function
Options ==
    {o \in [defaultTTL : {0}, maxSize : {0}, checkPeriod : {10000},
            allowStale : BOOLEAN, staleWhileRevalidate : StaleWindows,
            staleIfError : StaleWindows, useClone : BOOLEAN,
            disposeValue : {FALSE}] :
        ~(o.allowStale /\ o.staleWhileRevalidate > 0)}

Construct ==
    /\ now = 1
    /\ _map = <<>>
    /\ _timers = (opts.checkPeriod > 0)
    /\ _pending = [k \in AllKeys |-> 0]
    /\ _events = [e \in EventTypes |-> <<>>]
    /\ heap = [r \in {"o1"} |-> 0]
    /\ ops = {}
    /\ written = [k \in AllKeys |-> NoWrite]
    /\ last = Did("new", None, Undefined, None)
    /\ calls = <<>>

Init ==
    /\ impl \in {"js", "ts"}
    /\ opts \in Options
    /\ Construct

\* ------------------------------------------------------------- actions
\* time passes between two operations
Tick ==
    /\ now < MaxTime
    /\ now' = now + 1
    /\ last' = Did("tick", None, Undefined, None)
    /\ calls' = <<>>
    /\ UNCHANGED <<impl, opts, _map, _timers, _pending, _events, heap, ops, written>>

\* cache.set(k, v, ttl); c: is v cloneable
Set(k, v, c, ttl) ==
    /\ CanStore(v)
    /\ IF CloneThrows(c)
       THEN /\ last' = Did("set", k, DataCloneError, None)
            /\ calls' = <<>>
            /\ UNCHANGED <<_map, heap, written>>
       ELSE /\ _map' = SetMap(_map, k, Stored(v), ttl)
            /\ heap' = HeapAfterSet(v)
            /\ written' = NoteWrite(written, k, v, ttl, EvictedBy(_map, k, v, ttl))
            /\ last' = Did("set", k, "this", EvictedBy(_map, k, v, ttl))
            /\ calls' = SetCalls(_map, k, Stored(v), ttl)
    /\ UNCHANGED <<impl, opts, now, _timers, _pending, _events, ops>>

\* get that deletes the dead entry it finds
Get_DropsDead(k) ==
    /\ Has(_map, k) => _map[IndexOf(_map, k)].a < MaxAccess
    /\ _map' = IF Has(_map, k) /\ ~Servable(_map[IndexOf(_map, k)])
               THEN RemoveAt(_map, IndexOf(_map, k))
               ELSE GetMap(_map, k, TRUE)
    /\ last' = Did("get", k, GetValue(_map, k), None)
    /\ calls' = <<>>
    /\ UNCHANGED <<impl, opts, now, _timers, _pending, _events, heap, ops, written>>

\* cache.get(k): returns entry.v itself
Get(k) ==
    /\ Has(_map, k) => _map[IndexOf(_map, k)].a < MaxAccess
    /\ _map' = GetMap(_map, k, TRUE)
    /\ last' = Did("get", k, GetValue(_map, k), None)
    /\ calls' = <<>>
    /\ UNCHANGED <<impl, opts, now, _timers, _pending, _events, heap, ops, written>>

\* peek that forgets touch: false
Peek_Touches(k) ==
    /\ _map' = GetMap(_map, k, TRUE)
    /\ last' = Did("peek", k, GetValue(_map, k), None)
    /\ calls' = <<>>
    /\ UNCHANGED <<impl, opts, now, _timers, _pending, _events, heap, ops, written>>

\* cache.peek(k): return this.get(key, { touch: false })
Peek(k) ==
    /\ _map' = GetMap(_map, k, FALSE)
    /\ last' = Did("peek", k, GetValue(_map, k), None)
    /\ calls' = <<>>
    /\ UNCHANGED <<impl, opts, now, _timers, _pending, _events, heap, ops, written>>

\* cache.has(k)
CallHas(k) ==
    /\ last' = Did("has", k, has(_map, k), None)
    /\ calls' = <<>>
    /\ UNCHANGED <<impl, opts, now, _map, _timers, _pending, _events, heap, ops, written>>

\* del that removes the first entry of the store when the key is absent
Del_Greedy(k) ==
    /\ _map' = IF Has(_map, k)
               THEN RemoveAt(_map, IndexOf(_map, k))
               ELSE SubSeq(_map, 2, Len(_map))
    /\ written' = [written EXCEPT ![k] = NoWrite]
    /\ last' = Did("del", k, "this", None)
    /\ calls' = IF Has(_map, k)
               THEN DisposeEntry(_map[IndexOf(_map, k)], "delete")
               ELSE <<>>
    /\ UNCHANGED <<impl, opts, now, _timers, _pending, _events, heap, ops>>

\* cache.del(k)
Del(k) ==
    /\ _map' = IF Has(_map, k) THEN RemoveAt(_map, IndexOf(_map, k)) ELSE _map
    /\ written' = [written EXCEPT ![k] = NoWrite]
    /\ last' = Did("del", k, "this", None)
    /\ calls' = IF Has(_map, k)
               THEN DisposeEntry(_map[IndexOf(_map, k)], "delete")
               ELSE <<>>
    /\ UNCHANGED <<impl, opts, now, _timers, _pending, _events, heap, ops>>

\* cache.clear()
Clear ==
    /\ _map' = <<>>
    /\ written' = [k \in AllKeys |-> NoWrite]
    /\ last' = Did("clear", None, "this", None)
    /\ calls' = ClearCalls(_map)
    /\ UNCHANGED <<impl, opts, now, _timers, _pending, _events, heap, ops>>

\* cache.ttl(k, newTTL)
TtlSet(k, newTTL) ==
    /\ IF Has(_map, k)
       THEN /\ _map' = [_map EXCEPT ![IndexOf(_map, k)].e = ExpiryOf(newTTL)]
            /\ written' = [written EXCEPT ![k] = NoWrite]
            /\ last' = Did("ttl", k, "this", None)
       ELSE /\ last' = Did("ttl", k, "null", None)
            /\ UNCHANGED <<_map, written>>
    /\ calls' = <<>>
    /\ UNCHANGED <<impl, opts, now, _timers, _pending, _events, heap, ops>>

\* cache.ttl(k)
TtlGet(k) ==
    /\ last' = Did("ttl?", k, TtlQuery(_map, k), None)
    /\ calls' = <<>>
    /\ UNCHANGED <<impl, opts, now, _map, _timers, _pending, _events, heap, ops, written>>

\* getOrSet whose joining call replaces the ttl of the operation it joins
GetOrSet_JoinerTtlWins(k, ttl) ==
    /\ Has(_map, k) => _map[IndexOf(_map, k)].a < MaxAccess
    /\ _map' = GetMap(_map, k, TRUE)
    /\ IF GetValue(_map, k) # Undefined
       THEN /\ last' = DidCall(k, GetValue(_map, k), 0)
            /\ UNCHANGED <<_pending, ops>>
       ELSE IF Registered(_pending, k) # 0
       THEN /\ Op(Registered(_pending, k)).waiters < MaxWaiters
            /\ ops' = (ops \ {Op(Registered(_pending, k))})
                          \cup {[Op(Registered(_pending, k)) EXCEPT !.waiters = @ + 1,
                                                                   !.ttl = ttl]}
            /\ last' = DidCall(k, "joined", Registered(_pending, k))
            /\ UNCHANGED _pending
       ELSE /\ Cardinality(ops) < MaxLoads
            /\ ops' = ops \cup {NewOp(FreshId, k, ttl)}
            /\ _pending' = [_pending EXCEPT ![k] = FreshId]
            /\ last' = DidCall(k, "started", FreshId)
    /\ calls' = <<>>
    /\ UNCHANGED <<impl, opts, now, _timers, _events, heap, written>>

\* cache.getOrSet(k, loader, ttl), up to the point it returns its promise
GetOrSet(k, ttl) ==
    /\ Has(_map, k) => _map[IndexOf(_map, k)].a < MaxAccess
    /\ _map' = GetMap(_map, k, TRUE)
    /\ IF GetValue(_map, k) # Undefined
       THEN /\ last' = DidCall(k, GetValue(_map, k), 0)
            /\ UNCHANGED <<_pending, ops>>
       ELSE IF Registered(_pending, k) # 0
       THEN /\ Op(Registered(_pending, k)).waiters < MaxWaiters
            /\ ops' = (ops \ {Op(Registered(_pending, k))})
                          \cup {[Op(Registered(_pending, k)) EXCEPT !.waiters = @ + 1]}
            /\ last' = DidCall(k, "joined", Registered(_pending, k))
            /\ UNCHANGED _pending
       ELSE /\ Cardinality(ops) < MaxLoads
            /\ ops' = ops \cup {NewOp(FreshId, k, ttl)}
            /\ _pending' = [_pending EXCEPT ![k] = FreshId]
            /\ last' = DidCall(k, "started", FreshId)
    /\ calls' = <<>>
    /\ UNCHANGED <<impl, opts, now, _timers, _events, heap, written>>

\* the rejection handler of getOrSet (js: second argument of then, ts: catch)
\* out: what the loader settled with (history only)
OnRejected(o, err, out) ==
    /\ _pending' = Unmark(_pending, o.key)
    /\ IF StaleIfError(_map, o.key) # Undefined
       THEN /\ ops' = Retire(o, Unmark(_pending, o.key), "fulfilled", StaleIfError(_map, o.key))
            /\ last' = DidSettle("rescued", o, StaleIfError(_map, o.key), None, out)
       ELSE /\ ops' = Retire(o, Unmark(_pending, o.key), "rejected", err)
            /\ last' = DidSettle("rejected", o, err, None, out)
    /\ calls' = <<>>
    /\ UNCHANGED <<_map, heap, written>>

\* the fulfilment handler that stores under the default ttl
OnFulfilled_DefaultTtl(o, val, c) ==
    /\ _map' = SetMap(_map, o.key, Stored(val), opts.defaultTTL)
    /\ heap' = HeapAfterSet(val)
    /\ written' = NoteWrite(written, o.key, val, opts.defaultTTL, None)
    /\ _pending' = Unmark(_pending, o.key)
    /\ ops' = Retire(o, Unmark(_pending, o.key), "fulfilled", val)
    /\ last' = DidSettle("loaded", o, val, None, val)
    /\ calls' = <<>>

\* the fulfilment handler that leaves an entry written in the meantime alone
OnFulfilled_KeepsExisting(o, val, c) ==
    /\ _map' = IF Has(_map, o.key) THEN _map ELSE SetMap(_map, o.key, Stored(val), o.ttl)
    /\ heap' = HeapAfterSet(val)
    /\ written' = NoteWrite(written, o.key, val, o.ttl, EvictedBy(_map, o.key, val, o.ttl))
    /\ _pending' = Unmark(_pending, o.key)
    /\ ops' = Retire(o, Unmark(_pending, o.key), "fulfilled", val)
    /\ last' = DidSettle("loaded", o, val, EvictedBy(_map, o.key, val, o.ttl), val)
    /\ calls' = SetCalls(_map, o.key, Stored(val), o.ttl)

\* the fulfilment handler of getOrSet: this.set(key, val, ttl); this._pending.delete(key)
OnFulfilled(o, val, c) ==
    IF CloneThrows(c)
    THEN IF impl = "js"
         THEN \* then(onOk, onErr): onErr does not see what onOk throws
              /\ ops' = Retire(o, _pending, "rejected", DataCloneError)
              /\ last' = DidSettle("storefailed", o, DataCloneError, None, val)
              /\ calls' = <<>>
              /\ UNCHANGED <<_map, _pending, heap, written>>
         ELSE \* then(onOk).catch(onErr): the catch handler runs
              OnRejected(o, DataCloneError, val)
    ELSE /\ _map' = SetMap(_map, o.key, Stored(val), o.ttl)
         /\ heap' = HeapAfterSet(val)
         /\ written' = NoteWrite(written, o.key, val, o.ttl, EvictedBy(_map, o.key, val, o.ttl))
         /\ _pending' = Unmark(_pending, o.key)
         /\ ops' = Retire(o, Unmark(_pending, o.key), "fulfilled", val)
         /\ last' = DidSettle("loaded", o, val, EvictedBy(_map, o.key, val, o.ttl), val)
         /\ calls' = SetCalls(_map, o.key, Stored(val), o.ttl)

\* the loader of promise o resolves with val (cloneable or not)
LoaderResolves(o, val, c) ==
    /\ o.st = "pending"
    /\ CanStore(val)
    /\ OnFulfilled(o, val, c)
    /\ UNCHANGED <<impl, opts, now, _timers, _events>>

\* the loader of promise o fails
LoaderRejects(o) ==
    /\ o.st = "pending"
    /\ OnRejected(o, LoaderError, LoaderError)
    /\ UNCHANGED <<impl, opts, now, _timers, _events>>

\* the interval callback of _startCleanupTimer: _cleanup(), then stop when idle
CleanupTick ==
    /\ _timers
    /\ _map' = Sweep(_map)
    /\ _timers' = ~(Len(Sweep(_map)) = Len(_map) /\ Len(Sweep(_map)) = 0)
    /\ last' = Did("cleanup", None, Undefined, None)
    /\ calls' = SweepCalls(_map)
    /\ UNCHANGED <<impl, opts, now, _pending, _events, heap, ops, written>>

\* the number of observers registered, over both event kinds
Observers == Len(Listeners("expire")) + Len(Listeners("evict"))

\* cache.on(ev, cb): if (!this._events.has(event)) return this; push(callback)
On(ev, cb) ==
    /\ Observers < MaxObservers
    /\ _events' = IF ev \in DOMAIN _events
                  THEN [_events EXCEPT ![ev] = Append(@, cb)]
                  ELSE _events
    /\ last' = Did("on", None, "this", None)
    /\ calls' = <<>>
    /\ UNCHANGED <<impl, opts, now, _map, _timers, _pending, heap, ops, written>>

\* cbs.indexOf(callback), 0 for -1
FirstIndexOf(cbs, cb) ==
    IF \E i \in 1..Len(cbs) : cbs[i] = cb
    THEN CHOOSE i \in 1..Len(cbs) : cbs[i] = cb /\ \A j \in 1..(i - 1) : cbs[j] # cb
    ELSE 0

\* cache.off(ev, cb): splice the first occurrence of callback out of the list
Off(ev, cb) ==
    /\ _events' = IF ev \in DOMAIN _events /\ FirstIndexOf(_events[ev], cb) # 0
                  THEN [_events EXCEPT ![ev] = RemoveAt(@, FirstIndexOf(@, cb))]
                  ELSE _events
    /\ last' = Did("off", None, "this", None)
    /\ calls' = <<>>
    /\ UNCHANGED <<impl, opts, now, _map, _timers, _pending, heap, ops, written>>

\* dispose that leaves the interval running
Dispose_KeepsTimer ==
    /\ _map' = <<>>
    /\ calls' = ClearCalls(_map)
    /\ _events' = [e \in {} |-> <<>>]
    /\ _pending' = [k \in AllKeys |-> 0]
    /\ ops' = {o \in ops : o.st = "pending"}
    /\ written' = [k \in AllKeys |-> NoWrite]
    /\ last' = Did("dispose", None, Undefined, None)
    /\ UNCHANGED <<impl, opts, now, _timers, heap>>

\* cache.dispose(): clearInterval, clear(), _events.clear(), _pending.clear()
Dispose ==
    /\ _timers' = FALSE
    /\ _map' = <<>>
    /\ calls' = ClearCalls(_map)
    /\ _events' = [e \in {} |-> <<>>]
    /\ _pending' = [k \in AllKeys |-> 0]
    /\ ops' = {o \in ops : o.st = "pending"}
    /\ written' = [k \in AllKeys |-> NoWrite]
    /\ last' = Did("dispose", None, Undefined, None)
    /\ UNCHANGED <<impl, opts, now, heap>>

\* the references the caller holds: its own object, and the value the read
\* before this step handed out
Held ==
    {"o1"} \cup (IF last.op \in {"get", "peek", "mutate"} /\ last.ret \in Refs
                 THEN {last.ret}
                 ELSE {})

\* the caller changes the content of an object it holds
Mutate(r) ==
    /\ r \in Held
    /\ heap[r] < MaxVersion
    /\ heap' = [heap EXCEPT ![r] = @ + 1]
    /\ last' = Did("mutate", None, r, None)
    /\ calls' = <<>>
    /\ UNCHANGED <<impl, opts, now, _map, _timers, _pending, _events, ops, written>>

Next ==
    \/ Tick
    \/ \E k \in Keys, v \in Values, c \in BOOLEAN, ttl \in TTLs : Set(k, v, c, ttl)
    \/ \E k \in Keys : Get(k)
    \/ \E k \in Keys : Peek(k)
    \/ \E k \in Keys : CallHas(k)
    \/ \E k \in Keys : TtlGet(k)
    \/ \E k \in Keys : Del(k)
    \/ Clear
    \/ \E k \in Keys, ttl \in TTLs : TtlSet(k, ttl)
    \/ \E k \in Keys, ttl \in TTLs : GetOrSet(k, ttl)
    \/ \E o \in ops, v \in Values, c \in BOOLEAN : LoaderResolves(o, v, c)
    \/ \E o \in ops : LoaderRejects(o)
    \/ CleanupTick

Spec == Init /\ [][Next]_vars

\* ------------------------------------------------ the eviction specification
\* A cache of maxSize 1 or 2 over three keys, entries that never expire, no
\* timer; loaders run for key c.
LRUOptions ==
    [defaultTTL : {0}, maxSize : {1, 2}, checkPeriod : {0},
     allowStale : {FALSE}, staleWhileRevalidate : {0},
     staleIfError : {0}, useClone : {FALSE}, disposeValue : {FALSE}]

InitLRU ==
    /\ impl \in {"js", "ts"}
    /\ opts \in LRUOptions
    /\ Construct

NextLRU ==
    \/ Tick
    \/ \E k \in LRUKeys : Set(k, "v1", TRUE, 0)
    \/ \E k \in LRUKeys : Get(k)
    \/ \E k \in LRUKeys : Peek(k)
    \/ \E k \in LRUKeys : Del(k)
    \/ Clear
    \/ GetOrSet("c", 0)
    \/ \E o \in ops : LoaderResolves(o, "v2", TRUE)
    \/ \E o \in ops : LoaderRejects(o)

SpecLRU == InitLRU /\ [][NextLRU]_vars

\* ----------------------------------------------- the lifecycle specification
\* A cache of maxSize 1 or 2 over two keys with the cleanup timer, observers,
\* the disposeValue option and dispose(); no stale policy, no loaders.
ReaperKeys == {"a", "b"}

ReaperOptions ==
    [defaultTTL : {0}, maxSize : {1, 2}, checkPeriod : {10000},
     allowStale : {FALSE}, staleWhileRevalidate : {0},
     staleIfError : {0}, useClone : {FALSE}, disposeValue : BOOLEAN]

InitReaper ==
    /\ impl \in {"js", "ts"}
    /\ opts \in ReaperOptions
    /\ Construct

NextReaper ==
    \/ Tick
    \/ \E k \in ReaperKeys, ttl \in TTLs : Set(k, "v1", TRUE, ttl)
    \/ \E k \in ReaperKeys : Get(k)
    \/ \E k \in ReaperKeys : Del(k)
    \/ Clear
    \/ \E ev \in EventTypes, cb \in Callbacks : On(ev, cb)
    \/ \E ev \in EventTypes, cb \in Callbacks : Off(ev, cb)
    \/ CleanupTick
    \/ Dispose

SpecReaper == InitReaper /\ [][NextReaper]_vars

\* The same cache with maxSize 1 and no disposeValue, under the scheduling of
\* setInterval: while the interval is set, its callback eventually runs.
TimerOptions ==
    [defaultTTL : {0}, maxSize : {1}, checkPeriod : {10000},
     allowStale : {FALSE}, staleWhileRevalidate : {0},
     staleIfError : {0}, useClone : {FALSE}, disposeValue : {FALSE}]

InitTimer ==
    /\ impl \in {"js", "ts"}
    /\ opts \in TimerOptions
    /\ Construct

SpecTimer == InitTimer /\ [][NextReaper]_vars /\ WF_vars(CleanupTick)

\* ------------------------------------------------- the cloning specification
\* One key holding an object value, with and without useClone; the caller
\* mutates the objects it holds.
CloneOptions ==
    [defaultTTL : {0}, maxSize : {0}, checkPeriod : {0},
     allowStale : {FALSE}, staleWhileRevalidate : {0},
     staleIfError : {0}, useClone : BOOLEAN, disposeValue : {FALSE}]

InitClone ==
    /\ impl \in {"js", "ts"}
    /\ opts \in CloneOptions
    /\ Construct

NextClone ==
    \/ Tick
    \/ Set("a", "o1", TRUE, 0)
    \/ Get("a")
    \/ Peek("a")
    \/ Del("a")
    \/ \E r \in Refs : Mutate(r)

SpecClone == InitClone /\ [][NextClone]_vars

\* ================================================================ claims
\* the store as its callers see it
Size == Len(_map)
EntryOf(k) == _map[IndexOf(_map, k)]
ReadOf(k) == GetValue(_map, k)
InFlight(k) == \E o \in ops : o.key = k /\ o.st = "pending"
Wrote == (last.op = "set" /\ last.ret = "this") \/ last.op = "loaded"

\* ---------------------------------------------------------------- C1
\* a getOrSet call on a key whose loader is unsettled starts no second loader,
\* and without a servable entry it is handed the promise of that loader
JoinsTheFlight ==
    (last'.op = "getOrSet" /\ InFlight(last'.key))
        => /\ last'.ret # "started"
           /\ ReadOf(last'.key) = Undefined
                => /\ last'.ret = "joined"
                   /\ Op(last'.id).st = "pending"
                   /\ Op(last'.id).key = last'.key
                   /\ ops' = (ops \ {Op(last'.id)})
                                \cup {[Op(last'.id) EXCEPT !.waiters = @ + 1]}

Evictions == Size + (IF Has(_map, last'.key) THEN 0 ELSE 1) - Len(_map')

\* C2: capacity - with maxSize m > 0 the size never exceeds m; a write (set, or
\* the set of a settling loader) of a new key that pushes the size above m
\* evicts exactly one entry, and no write evicts more than one.
C2_Capacity ==
    [][/\ opts.maxSize > 0 => Len(_map') <= opts.maxSize
       /\ Wrote'
            => /\ Evictions \in {0, 1}
               /\ (~Has(_map, last'.key) /\ opts.maxSize > 0 /\ Size + 1 > opts.maxSize)
                    => /\ Evictions = 1
                       /\ last'.evicted # None]_vars

\* a write into a full store evicted an entry and left the store full
C2_Witness ==
    /\ Wrote
    /\ last.evicted # None
    /\ opts.maxSize > 0
    /\ Size = opts.maxSize

\* ---------------------------------------------------------------- C3
\* the last touch of key k before the step (the write time for the new key)
TouchedAt(k) == IF Has(_map, k) THEN EntryOf(k).t ELSE DateNow

NoStale == ~opts.allowStale /\ opts.staleWhileRevalidate = 0

\* what read(key) owes a write w at time at when nothing stale is served
TTLAnswer(w, at) == IF at <= w.exp THEN w.v ELSE Undefined

\* C4 as claimed: TTL expiry - after write(key, v, t), t > 0, with no stale
\* policy and no delete, clear, eviction or overwrite of key since, read(key)
\* is v up to expiresAt = writeTime + t and not-found after it.  (written is
\* dropped by ttl(key, newTtl) too, so the write a ttl step ends is looked up
\* before the step.)
C4_AsClaimed ==
    [][\A k \in Keys :
          LET w == IF last'.op = "ttl" /\ last'.key = k THEN written[k] ELSE written'[k]
          IN  (NoStale /\ w.on) => ReadOf(k)' = TTLAnswer(w, DateNow')]_vars

\* C4 amended: TTL expiry - after write(key, v, t), t > 0, with no stale policy
\* and no delete, clear, eviction, overwrite or ttl(key, newTtl) update of key
\* since, read(key) is v at every time up to expiresAt = writeTime + t and
\* not-found at every time after it, swept or not.
C4_TTLExpiry ==
    NoStale => \A k \in Keys : written[k].on => ReadOf(k) = TTLAnswer(written[k], DateNow)

\* a read of an expired entry that no sweep has removed returned not-found
C4_Witness ==
    /\ NoStale
    /\ written["a"].on
    /\ DateNow > written["a"].exp
    /\ Has(_map, "a")
    /\ last.op = "get"
    /\ last.ret = Undefined

\* ---------------------------------------------------------------- C5
\* C5: stale-while-revalidate - with a window w > 0 and allowStale off, an entry
\* written with ttl > 0 that no caller deletes, clears, overwrites (or retimes)
\* and that is not evicted is read as its value while now - expiresAt < w and
\* as not-found from then on, in every reachable state, Reaper ticks included.
C5_AsClaimed ==
    (~opts.allowStale /\ opts.staleWhileRevalidate > 0)
        => \A k \in Keys :
              written[k].on
                => ReadOf(k) = IF DateNow - written[k].exp < opts.staleWhileRevalidate
                               THEN written[k].v
                               ELSE Undefined

\* ---------------------------------------------------------------- C6
\* the store holds an entry for k inside the stale-if-error window
StaleCovers(k) ==
    /\ opts.staleIfError > 0
    /\ Has(_map, k)
    /\ DateNow - EntryOf(k).e < opts.staleIfError

\* C6: stale-if-error - when the loader fails, staleIfError > 0 and the store
\* holds an entry for the key with now - expiresAt < staleIfError, every waiter
\* resolves with that entry's value, also when read would call the entry dead.
C6_AsClaimed ==
    [][(last'.loader = LoaderError /\ StaleCovers(last'.key))
         => /\ last'.op = "rescued"
            /\ last'.ret = EntryOf(last'.key).v]_vars

\* ---------------------------------------------------------------- C7
\* C7: loader failure without rescue - when the loader fails and no entry is
\* inside the stale-if-error window, every waiter receives the loader's
\* failure, getOrSet has written nothing (neither the call nor the handler
\* changes the store), the marker is gone, and a later getOrSet that misses
\* starts a loader of its own.
C7_LoaderFailure ==
    [][/\ (last'.loader = LoaderError /\ ~StaleCovers(last'.key))
            => /\ last'.op = "rejected"
               /\ last'.ret = LoaderError
               /\ last'.waiters = Op(last'.id).waiters
               /\ _map' = _map
               /\ _pending'[last'.key] = 0
               /\ \A o \in ops' : o.id # last'.id
       /\ (last'.op = "getOrSet" /\ last'.ret \in {"started", "joined"})
            => _map' = _map
       /\ (last'.op = "getOrSet" /\ ReadOf(last'.key) = Undefined
                                 /\ _pending[last'.key] = 0)
            => /\ last'.ret = "started"
               /\ Cardinality(ops') = Cardinality(ops) + 1]_vars

\* two callers shared a loader that failed, and both received its failure
C7_Witness ==
    /\ last.op = "rejected"
    /\ last.loader = LoaderError
    /\ last.ret = LoaderError
    /\ last.waiters >= 2
    /\ _pending[last.key] = 0

\* ---------------------------------------------------------------- C8
\* C8: registry hygiene - every marker in the in-flight registry names an
\* unsettled promise: a promise that has settled (loader success, loader
\* failure, or a failure while storing the result) is no longer registered.
C8_AsClaimed ==
    \A k \in AllKeys :
        _pending[k] # 0 => \E o \in ops : o.id = _pending[k] /\ o.st = "pending"

\* ---------------------------------------------------------------- C9
\* C9: second wave - a getOrSet call is never joined to a promise that has
\* settled; when the key is servable it returns the cached value and starts no
\* loader, and when it is not (and no loader of the key is unsettled) it
\* starts a loader of its own.
C9_AsClaimed ==
    [][last'.op = "getOrSet"
         => /\ last'.ret = "joined" => Op(last'.id).st = "pending"
            /\ ReadOf(last'.key) # Undefined
                 => (last'.ret = ReadOf(last'.key) /\ ops' = ops)
            /\ (ReadOf(last'.key) = Undefined /\ ~InFlight(last'.key))
                 => last'.ret = "started"]_vars

\* --------------------------------------------------------------- C10
\* C10: peek is recency-neutral - peek(key) returns what read would and changes
\* no lastTouch, no accessCount and no other cache state, so whatever follows
\* (the victim of a later eviction included) is as if the peek had not happened.
C10_PeekNeutral ==
    [][last'.op = "peek"
         => /\ last'.ret = ReadOf(last'.key)
            /\ UNCHANGED <<impl, opts, now, _map, _timers, _pending, ops, written>>]_vars

\* a, then b, were written into a cache of maxSize 2 and a was peeked, not
\* read: the write of c evicted a (the test "peek method" of the repository)
C10_Witness ==
    /\ last.op = "peek"
    /\ last.key = "a"
    /\ last.ret = "v1"
    /\ Size = 2
    /\ _map[1].k = "a"
    /\ _map[1].a = 0
    /\ EvictedBy(_map, "c", "v1", 0) = "a"

\* --------------------------------------------------------------- C11
\* C11: exists - has(key) answers true exactly when peek(key) returns the
\* entry (the key is in the store and its entry is alive or stale-servable),
\* and false when the key is absent or its entry is dead.
C11_AsClaimed ==
    [][last'.op = "has"
         => last'.ret = (ReadOf(last'.key) # Undefined)]_vars

\* --------------------------------------------------------------- C12
\* dispose() has run: it is the only code that empties this._events
Disposed == DOMAIN _events = {}

\* the step delivered an expire notification to an observer
ExpireDelivered == \E i \in 1..Len(calls) : calls[i].event = "expire"

\* C12: dispose - when dispose() returns the store is empty and the timer is
\* off, and from then on, whatever is called afterwards, the timer stays off
\* and no step delivers an expire notification.
C12_Dispose ==
    [][/\ last'.op = "dispose" => (Len(_map') = 0 /\ ~_timers')
       /\ Disposed' => (~_timers' /\ ~ExpireDelivered')]_vars

\* after dispose() an entry was written and has expired: nothing sweeps it
C12_Witness ==
    /\ Disposed
    /\ ~_timers
    /\ Has(_map, "a")
    /\ Expired(EntryOf("a"))

\* --------------------------------------------------------------- C13
\* key k has an entry whose expiresAt has passed
DeadIn(k) == Has(_map, k) /\ Expired(EntryOf(k))

\* C13: Reaper liveness - with checkPeriod > 0 and the cache not disposed, an
\* entry whose expiresAt has passed is eventually gone from the store (swept,
\* or removed or renewed by another path), also when it was written after the
\* timer stopped itself on an empty store.
C13_AsClaimed ==
    \A k \in ReaperKeys :
        (opts.checkPeriod > 0 /\ ~Disposed /\ DeadIn(k)) ~> (Disposed \/ ~DeadIn(k))

\* --------------------------------------------------------------- C14
\* the positions of the entries the step removes from the store
Gone == {i \in 1..Len(_map) : ~Has(_map', _map[i].k)}

\* the event kind the step has to announce: a sweep expires, a write that
\* overflows evicts, nothing else notifies
Announces ==
    IF last'.op = "cleanup" THEN "expire"
    ELSE IF Wrote' /\ last'.evicted # None THEN "evict"
    ELSE None

\* how often callback cb is registered for event kind ev
Registrations(ev, cb) ==
    Cardinality({n \in 1..Len(Listeners(ev)) : Listeners(ev)[n] = cb})

\* how often the step called observer cb about entry en with event kind ev
Deliveries(cs, ev, cb, en) ==
    Cardinality({j \in 1..Len(cs) :
                    /\ cs[j].fn = cb
                    /\ cs[j].event = ev
                    /\ cs[j].key = en.k
                    /\ cs[j].value = en.v
                    /\ ev = "evict" => cs[j].reason = "lru"})

\* the observer invocations among the callbacks of a step
Notifications(cs) == {j \in 1..Len(cs) : cs[j].event # None}

\* C14: event accounting - a sweep delivers, for every entry it removes, exactly
\* one expire notification to each registered observer, an eviction exactly
\* one evict notification with reason lru, each with the entry's key and
\* value; no other notification is delivered: none by delete, clear, dispose,
\* overwrite, reads or any other operation.
C14_EventAccounting ==
    [][IF Announces = None
       THEN Notifications(calls') = {}
       ELSE /\ \A i \in Gone, cb \in Callbacks :
                  Deliveries(calls', Announces, cb, _map[i])
                      = Registrations(Announces, cb)
            /\ Cardinality(Notifications(calls'))
                   = Cardinality(Gone) * Len(Listeners(Announces))]_vars

\* a sweep removed two entries and told the one expire observer about both
C14_Witness ==
    /\ last.op = "cleanup"
    /\ Len(calls) = 2
    /\ calls[1].event = "expire"
    /\ calls[2].event = "expire"
    /\ calls[1].key # calls[2].key

\* --------------------------------------------------------------- C15
\* the observers the step called about key k, in call order
CalledFor(cs, k) ==
    LET sel == SelectSeq(cs, LAMBDA c : c.event # None /\ c.key = k)
    IN  [n \in 1..Len(sel) |-> sel[n].fn]

\* C15: observer isolation - when an observer raises during an eviction or a
\* sweep, the entry is removed all the same, every observer of the event is
\* called, in registration order, for every entry removed, set still returns
\* the cache, and the timer callback runs to its end (it stops the timer only
\* when the sweep cleaned nothing and the store is empty).
C15_ObserverIsolation ==
    [][(Announces # None /\ Gone # {}
           /\ \E n \in 1..Len(Listeners(Announces)) : Raises(Listeners(Announces)[n]))
         => /\ \A i \in Gone : CalledFor(calls', _map[i].k) = Listeners(Announces)
            /\ Len(_map') < Len(_map) + (IF last'.op = "cleanup" THEN 0 ELSE 1)
            /\ last'.op = "set" => last'.ret = "this"
            /\ last'.op = "cleanup" => _timers']_vars

\* the observer registered first raised, and the one after it was called too
C15_Witness ==
    /\ Len(calls) >= 2
    /\ calls[Len(calls) - 1].fn = "bad"
    /\ calls[Len(calls)].fn = "obs"
    /\ calls[Len(calls) - 1].event = calls[Len(calls)].event

\* --------------------------------------------------------------- C16
\* the disposeValue invocations among the callbacks of a step
HookCalls(cs) == {j \in 1..Len(cs) : cs[j].fn = "disposeValue"}

\* the reason of the path that destroys entries in operation op
ReasonOf(op) ==
    CASE op = "del" -> "delete"
      [] op \in {"clear", "dispose"} -> "clear"
      [] op = "cleanup" -> "expire"
      [] op \in {"set", "loaded"} -> "lru"
      [] OTHER -> None

\* C16: disposal hook accounting - with a disposeValue function configured, a
\* step calls it exactly once for every entry it destroys, with the entry's
\* value and key and the reason of the path (delete, clear for clear() and
\* dispose(), lru, expire), and for no entry that stays in the store.
C16_HookAccounting ==
    [][opts.disposeValue
         => /\ Cardinality(HookCalls(calls')) = Cardinality(Gone)
            /\ \A i \in Gone :
                  \E j \in HookCalls(calls') :
                      calls'[j] = Call("disposeValue", None, _map[i].k, _map[i].v,
                                       ReasonOf(last'.op))]_vars

\* dispose() destroyed two entries and the hook saw both with reason clear
C16_Witness ==
    /\ last.op = "dispose"
    /\ Len(calls) = 2
    /\ calls[1].reason = "clear"
    /\ calls[2].reason = "clear"
    /\ calls[1].key # calls[2].key

\* --------------------------------------------------------------- C17
\* C17: idempotence of removal - del(key) on an absent key and clear() on an
\* empty cache change no cache state, call no hook and no observer and return
\* the cache; del(key) on a present key leaves the key absent and the size one
\* smaller.
C17_RemovalIdempotent ==
    [][/\ (\/ last'.op = "del" /\ ~Has(_map, last'.key)
           \/ last'.op = "clear" /\ Len(_map) = 0)
            => /\ UNCHANGED <<impl, opts, now, _map, _timers, _pending, _events, heap, ops>>
               /\ calls' = <<>>
               /\ last'.ret = "this"
       /\ (last'.op = "del" /\ Has(_map, last'.key))
            => /\ ~Has(_map', last'.key)
               /\ Len(_map') = Len(_map) - 1]_vars

\* del on an absent key, next to an entry that stayed: with disposeValue
\* configured, no hook call means nothing was destroyed
C17_Witness ==
    /\ last.op = "del"
    /\ opts.disposeValue
    /\ calls = <<>>
    /\ Len(_map) = 1
    /\ ~Has(_map, last.key)

\* --------------------------------------------------------------- C18
\* C18: accessCount is monotonic per key - while a key stays in the store its
\* accessCount never decreases: a touching read adds one, and a write that
\* replaces the value leaves it unchanged.
C18_AsClaimed ==
    [][\A k \in Keys :
          (Has(_map, k) /\ Has(_map', k))
            => /\ EntryOf(k)'.a >= EntryOf(k).a
               /\ (last'.op = "get" /\ last'.key = k /\ last'.ret # Undefined)
                    => EntryOf(k)'.a = EntryOf(k).a + 1
               /\ (last'.op = "set" /\ last'.key = k /\ last'.ret = "this")
                    => EntryOf(k)'.a = EntryOf(k).a]_vars

\* --------------------------------------------------------------- C19
\* C19: copy independence - with useClone on, a caller that mutates an object
\* it holds (the one it passed to set, or one it got from get or peek) does
\* not change the content a later read of the key returns.
C19_AsClaimed ==
    [][(opts.useClone /\ last'.op = "mutate" /\ ReadOf("a") # Undefined)
         => ContentOf(ReadOf("a"))' = ContentOf(ReadOf("a"))]_vars

\* --------------------------------------------------------------- C20
\* C20 as claimed: ttl(key) is null when the key is absent or its entry has
\* expired, Infinity when the entry never expires, and otherwise expiresAt -
\* now, then strictly positive and at most the ttl the entry was written with.
C20_AsClaimed ==
    [][last'.op = "ttl?"
         => /\ last'.ret =
                  IF ~Has(_map, last'.key) THEN Null
                  ELSE IF Expired(EntryOf(last'.key)) THEN Null
                  ELSE IF EntryOf(last'.key).e = 0 THEN Infinity
                  ELSE Remaining(EntryOf(last'.key).e - DateNow)
            /\ last'.ret.is = "number"
                 => /\ last'.ret.ms > 0
                    /\ written[last'.key].on => last'.ret.ms <= written[last'.key].ttl]_vars

\* C20 amended: ttl(key) is null when the key is absent, Infinity when the entry
\* never expires, and otherwise the remaining lifetime clamped at zero: expiresAt
\* - now while that is positive, and 0 from expiresAt on, which includes an expired
\* entry no sweep has removed yet; it is never more than the ttl the entry was
\* written with, as long as no ttl(key, newTtl) has replaced its expiry.
C20_TtlQuery ==
    [][last'.op = "ttl?"
         => /\ last'.ret =
                  IF ~Has(_map, last'.key) THEN Null
                  ELSE IF EntryOf(last'.key).e = 0 THEN Infinity
                  ELSE IF EntryOf(last'.key).e > DateNow
                       THEN Remaining(EntryOf(last'.key).e - DateNow)
                       ELSE Remaining(0)
            /\ last'.ret.is = "number"
                 => /\ last'.ret.ms >= 0
                    /\ written[last'.key].on => last'.ret.ms <= written[last'.key].ttl]_vars

\* ttl(key) on an expired entry that is still in the store answered 0
C20_Witness ==
    /\ last.op = "ttl?"
    /\ Has(_map, last.key)
    /\ Expired(EntryOf(last.key))
    /\ last.ret = Remaining(0)

\* --------------------------------------------------------------- C21
\* the step is a direct set(k, v, ttl) that did not throw
DirectWrite(k, v, ttl) == \E c \in BOOLEAN : Set(k, v, c, ttl) /\ ~CloneThrows(c)

\* the step applies a direct write made while a loader of its key is unsettled
WriteInFlightApplied ==
    \A k \in Keys, v \in Values, ttl \in TTLs :
        (DirectWrite(k, v, ttl) /\ InFlight(k))
          => /\ Has(_map', k)
             /\ EntryOf(k)'.v = v
             /\ last'.ret = "this"
             /\ UNCHANGED <<ops, _pending>>

\* C21 as claimed: last write wins - a set(key, v1) made while a loader of key
\* is in flight is applied at once; when the loader then resolves with v2, its
\* write replaces v1: the store holds v2 and the waiters resolve with v2.
C21_AsClaimed ==
    [][/\ WriteInFlightApplied
       /\ \A o \in ops, v \in Values, c \in BOOLEAN :
             (LoaderResolves(o, v, c) /\ Has(_map, o.key))
               => /\ last'.op = "loaded"
                  /\ last'.ret = v
                  /\ EntryOf(o.key)'.v = v]_vars

\* C21 amended: last write wins - a set(key, v1) made while a loader of key is
\* in flight is applied at once; when the loader then resolves with v2, its
\* write replaces v1 (the store holds v2 and the waiters resolve with v2),
\* unless storing v2 throws (useClone and v2 not cloneable): then the store
\* keeps v1 and no waiter resolves with v2 as the loaded value.
C21_LastWriteWins ==
    [][/\ WriteInFlightApplied
       /\ \A o \in ops, v \in Values, c \in BOOLEAN :
             (LoaderResolves(o, v, c) /\ Has(_map, o.key))
               => \/ /\ ~CloneThrows(c)
                     /\ last'.op = "loaded"
                     /\ last'.ret = v
                     /\ EntryOf(o.key)'.v = v
                  \/ /\ CloneThrows(c)
                     /\ last'.op \in {"storefailed", "rejected", "rescued"}
                     /\ _map' = _map]_vars

\* a direct write landed while the loader of its key was unsettled
C21_Witness ==
    /\ last.op = "set"
    /\ last.ret = "this"
    /\ InFlight(last.key)
    /\ ReadOf(last.key) # Undefined

\* --------------------------------------------------------------- C22
\* C22: reads never change membership - get, peek and has add no key and
\* remove none, and change no entry's value or expiry; a dead entry they
\* answer not-found for stays in the store as it is and keeps counting in size.
C22_ReadsKeepMembership ==
    [][last'.op \in {"get", "peek", "has"}
         => /\ KeysOf(_map') = KeysOf(_map)
            /\ Len(_map') = Len(_map)
            /\ \A i \in 1..Len(_map) :
                  /\ _map'[i].k = _map[i].k
                  /\ _map'[i].v = _map[i].v
                  /\ _map'[i].e = _map[i].e
            /\ last'.op = "has" => _map' = _map
            /\ (last'.op # "has" /\ DeadIn(last'.key) /\ last'.ret = Undefined)
                  => _map' = _map]_vars

\* a peek found a dead entry, answered not-found and left it in the store
C22_Witness ==
    /\ last.op = "peek"
    /\ last.ret = Undefined
    /\ DeadIn(last.key)
    /\ Size = 1

\* --------------------------------------------------------------- C23
\* the entry has a finite expiresAt strictly before the current time
PastExpiry(en) == en.e # 0 /\ en.e < DateNow

\* C23: Reaper strictness - a sweep removes exactly the entries whose finite
\* expiresAt is strictly earlier than the sweep time, whatever allowStale and
\* the stale windows say, and leaves every other entry as it was; after the
\* sweep the store holds no expired entry.
C23_ReaperStrict ==
    [][last'.op = "cleanup"
         => /\ _map' = SelectSeq(_map, LAMBDA en : ~PastExpiry(en))
            /\ \A i \in 1..Len(_map) : PastExpiry(_map[i]) <=> ~Has(_map', _map[i].k)
            /\ \A j \in 1..Len(_map') : ~PastExpiry(_map'[j])]_vars

\* a sweep removed an entry that get was still serving inside the
\* stale-while-revalidate window
C23_Witness ==
    /\ last.op = "cleanup"
    /\ opts.staleWhileRevalidate > 0
    /\ written["a"].on
    /\ DateNow > written["a"].exp
    /\ DateNow - written["a"].exp < opts.staleWhileRevalidate
    /\ ~Has(_map, "a")

\* --------------------------------------------------------------- C24
\* C24: overwrite is not a removal - a write to a key that is already in the
\* store runs no eviction, calls neither the disposal hook nor an observer,
\* and leaves the size, the positions and every other key's entry unchanged,
\* also when the store is exactly at capacity.
C24_OverwriteKeeps ==
    [][(last'.op = "set" /\ Has(_map, last'.key))
         => /\ last'.evicted = None
            /\ calls' = <<>>
            /\ Len(_map') = Len(_map)
            /\ \A i \in 1..Len(_map) :
                  /\ _map'[i].k = _map[i].k
                  /\ _map[i].k # last'.key => _map'[i] = _map[i]]_vars

\* a store of two at capacity 2, with the disposal hook and an evict observer
\* in place: the entry inserted first was rewritten after the other one was
\* last touched, and both are still there
C24_Witness ==
    /\ last.op = "set"
    /\ opts.maxSize = 2
    /\ opts.disposeValue
    /\ Listeners("evict") # <<>>
    /\ Size = 2
    /\ _map[1].k = last.key
    /\ _map[1].t = DateNow
    /\ _map[2].t < DateNow
    /\ last.evicted = None
    /\ calls = <<>>

\* --------------------------------------------------------------- C25
\* C25: recency dominates the eviction score - the victim of an eviction is
\* never an entry with a newer lastTouch than another entry of the store, and
\* among entries of identical lastTouch the one with fewer accesses goes first.
C25_AsClaimed ==
    [][(Wrote' /\ last'.evicted # None /\ Has(_map, last'.evicted))
         => \A k \in KeysOf(_map) :
               \/ EntryOf(last'.evicted).t < EntryOf(k).t
               \/ /\ EntryOf(last'.evicted).t = EntryOf(k).t
                  /\ EntryOf(last'.evicted).a <= EntryOf(k).a]_vars

\* --------------------------------------------------------------- C28
\* a write of value v under key k that did not throw: set, or the set of a
\* settling loader
Writes(k, v) ==
    \/ \E c \in BOOLEAN, ttl \in TTLs : Set(k, v, c, ttl) /\ ~CloneThrows(c)
    \/ \E o \in ops, c \in BOOLEAN :
          o.key = k /\ LoaderResolves(o, v, c) /\ ~CloneThrows(c)

\* C28: read-your-write under eviction - the key just written is never the
\* victim of the eviction its own write triggers: right after the write the
\* key is in the store with the value written, for maxSize 1 as for more.
C28_ReadYourWrite ==
    [][\A k \in LRUKeys, v \in Values :
          Writes(k, v)
            => /\ last'.evicted # k
               /\ Has(_map', k)
               /\ EntryOf(k)'.v = v
               /\ ReadOf(k)' = v]_vars

\* at maxSize 1 the write of a new key evicted the only other entry and is
\* itself in the store
C28_Witness ==
    /\ Wrote
    /\ opts.maxSize = 1
    /\ last.evicted \notin {None, last.key}
    /\ KeysOf(_map) = {last.key}

\* --------------------------------------------------------------- C29
\* C29: a write counts as a use - set on an existing key puts that entry's
\* lastTouch at the write time, so while the store holds an entry with an
\* older lastTouch the rewritten key is not the next eviction victim, and no
\* eviction removes an entry touched later than another one.
C29_WriteIsUse ==
    [][/\ (last'.op = "set" /\ last'.ret = "this" /\ Has(_map, last'.key))
            => /\ _map'[IndexOf(_map', last'.key)].t = DateNow'
               /\ (\E j \in 1..Len(_map') : _map'[j].t < DateNow)
                    => _map'[VictimIndex(_map')].k # last'.key
       /\ (Wrote' /\ last'.evicted # None /\ Has(_map, last'.evicted))
            => \A j \in 1..Len(_map) : EntryOf(last'.evicted).t <= _map[j].t]_vars

\* the entry inserted first was rewritten later than the other entry's last
\* touch: the next eviction would take the other entry
C29_Witness ==
    /\ last.op = "set"
    /\ last.ret = "this"
    /\ Size = 2
    /\ _map[1].k = last.key
    /\ _map[1].a = 0
    /\ _map[1].t > _map[2].t
    /\ VictimIndex(_map) = 2

\* --------------------------------------------------------------- C26
\* C26: ttl(key, newTtl) frame - on a present key (alive, stale or dead) it
\* sets only that entry's expiresAt, to now + newTtl or to never-expires for
\* newTtl 0; on an absent key it changes no cache state; in both cases it
\* returns the cache itself.
C26_AsClaimed ==
    [][\A k \in Keys, n \in TTLs :
          TtlSet(k, n)
            => /\ last'.ret = "this"
               /\ _map' = IF Has(_map, k)
                          THEN [_map EXCEPT ![IndexOf(_map, k)].e =
                                               IF n = 0 THEN 0 ELSE DateNow + n]
                          ELSE _map
               /\ UNCHANGED <<opts, _timers, _pending, _events, ops>>]_vars

\* --------------------------------------------------------------- C27
\* the steps in which a promise of getOrSet settles
Settles == {"loaded", "storefailed", "rescued", "rejected"}

\* a loader that was started stays in flight, its key and ttl as they were
\* given, until the step in which it settles
Uncancelled ==
    \A o \in ops :
        o.st = "pending"
          => \/ \E p \in ops' : /\ p.id = o.id
                                /\ p.st = "pending"
                                /\ p.key = o.key
                                /\ p.ttl = o.ttl
             \/ last'.op \in Settles /\ last'.id = o.id

\* the step stores what the loader of o resolved with, under o's key and ttl
StoresLoaded(o, v) ==
    /\ last'.op = "loaded"
    /\ Has(_map', o.key)
    /\ EntryOf(o.key)'.v = v
    /\ EntryOf(o.key)'.e = (IF o.ttl > 0 THEN DateNow + o.ttl ELSE 0)
    /\ EntryOf(o.key)'.t = DateNow

\* C27 as claimed: no cancellation - a loader that was started is never
\* cancelled; if it resolves, its value is written under its key with the
\* requested ttl, whatever happened to the key or the store during the flight.
C27_AsClaimed ==
    [][/\ Uncancelled
       /\ \A o \in ops, v \in Values, c \in BOOLEAN :
             LoaderResolves(o, v, c) => StoresLoaded(o, v)]_vars

\* C27 amended: no cancellation - a loader that was started is never
\* cancelled; if it resolves, its value is written under its key with the
\* requested ttl, whatever happened to the key or the store during the flight,
\* unless storing the value throws (useClone and the value not cloneable):
\* then the store is left as it was.
C27_NoCancellation ==
    [][/\ Uncancelled
       /\ \A o \in ops, v \in Values, c \in BOOLEAN :
             LoaderResolves(o, v, c)
               => IF CloneThrows(c)
                  THEN last'.op \in Settles \ {"loaded"} /\ _map' = _map
                  ELSE StoresLoaded(o, v)]_vars

\* the store was emptied by del or clear while the loader of key a, asked for
\* with ttl 1, is still in flight
C27_Witness ==
    /\ last.op \in {"del", "clear"}
    /\ Size = 0
    /\ \E o \in ops : o.key = "a" /\ o.st = "pending" /\ o.ttl = 1

\* --------------------------------------------------------------- C30
\* a getOrSet call that is handed the registered promise of its key starts no
\* loader and leaves the operation, its ttl included, and the store as they are
JoinsOnly ==
    (last'.op = "getOrSet" /\ last'.ret = "joined")
        => /\ \E o \in ops :
                 /\ o.id = last'.id
                 /\ o.key = last'.key
                 /\ ops' = (ops \ {o}) \cup {[o EXCEPT !.waiters = @ + 1]}
           /\ UNCHANGED <<_map, _pending>>

\* the step settles o for good: no promise of that identity is left in flight
WritesOnce(o) == \A p \in ops' : p.id = o.id => p.st # "pending"

\* C30 as claimed: joined callers' arguments are ignored - a joining call
\* starts no loader and its ttl is not used; the entry is written once, with
\* the value of the first caller's loader and the first caller's ttl.
C30_AsClaimed ==
    [][/\ JoinsOnly
       /\ \A o \in ops, v \in Values, c \in BOOLEAN :
             (LoaderResolves(o, v, c) /\ o.waiters >= 2)
               => StoresLoaded(o, v) /\ WritesOnce(o)]_vars

\* C30 amended: joined callers' arguments are ignored - a joining call starts
\* no loader and its ttl is not used; when the loader resolves and its value
\* can be stored, the entry is written once, with that value and the first
\* caller's ttl; when storing it throws, no entry is written.
C30_JoinersIgnored ==
    [][/\ JoinsOnly
       /\ \A o \in ops, v \in Values, c \in BOOLEAN :
             (LoaderResolves(o, v, c) /\ o.waiters >= 2)
               => /\ WritesOnce(o)
                  /\ IF CloneThrows(c)
                     THEN last'.op \in Settles \ {"loaded"} /\ _map' = _map
                     ELSE StoresLoaded(o, v)]_vars

\* an operation with a joined caller has settled and its entry carries the
\* ttl 1 it was started with
C30_Witness ==
    /\ last.op = "loaded"
    /\ last.waiters >= 2
    /\ Has(_map, last.key)
    /\ EntryOf(last.key).v = last.ret
    /\ EntryOf(last.key).e = DateNow + 1

\* --------------------------------------------------------------- C31
\* ------------------------------------------------ the disposal specification
\* One key, all options; the caller writes, reads, deletes and loads until it
\* calls dispose() and calls nothing afterwards.  What still runs then is what
\* the caller does not drive: the clock, the interval callback while the
\* interval is set, and the handlers of the loaders started before.
NextDispose ==
    \/ Tick
    \/ ~Disposed /\ \E k \in Keys, v \in Values, c \in BOOLEAN, ttl \in TTLs : Set(k, v, c, ttl)
    \/ ~Disposed /\ \E k \in Keys : Get(k)
    \/ ~Disposed /\ \E k \in Keys : Del(k)
    \/ ~Disposed /\ \E k \in Keys, ttl \in TTLs : GetOrSet(k, ttl)
    \/ ~Disposed /\ Dispose
    \/ \E o \in ops, v \in Values, c \in BOOLEAN : LoaderResolves(o, v, c)
    \/ \E o \in ops : LoaderRejects(o)
    \/ CleanupTick

SpecDispose == Init /\ [][NextDispose]_vars

\* C31: disposal is final for in-flight work - when the caller calls nothing
\* after dispose(), the store is empty in every state from dispose() on, also
\* after a loader that was in flight at dispose() has settled.
C31_AsClaimed == Disposed => Len(_map) = 0

====
